---- MODULE Spec2Model ----
(***************************************************************************)
(* A model of the user-account service: AuthService, UsersService, the two *)
(* passport strategies, RolesGuard and the two controllers.  One action    *)
(* per HTTP route; each action is the whole request: guards, handler,      *)
(* store calls, event emission and the response.                           *)
(*                                                                         *)
(* Not modelled: createdAt/updatedAt timestamps, logging, Swagger wiring   *)
(* and the trimming done by the DTO transforms.                            *)
(***************************************************************************)
EXTENDS Integers, Sequences, FiniteSets, TLC

(***************************************************************************)
(* Bounds of the model.                                                    *)
(***************************************************************************)
MaxId == 2        \* users ever created (ids come from a sequence, never reused)

(***************************************************************************)
(* Request inputs.                                                         *)
(***************************************************************************)
ValidEmails == {"a@x.io", "b@x.io"}
BadEmail == "not-an-email"
AllEmails == ValidEmails \cup {BadEmail}
ValidPasswords == {"password1", "password2"}
BadPassword == "short"
AllPasswords == ValidPasswords \cup {BadPassword}
Salts == {"saltA"}
Roles == {"USER", "ADMIN"}
DefaultRole == "USER"
DefaultIsActive == TRUE

Unset == "<undefined>"
NaN == -1

\* a ?? b
Coalesce(a, b) == IF a = Unset THEN b ELSE a

Digits == <<"1", "2", "3", "4", "5", "6", "7", "8", "9">>

\* String(n) of JavaScript, for a positive integer
String(n) == Digits[n]

\* String(obj.f): a property the object does not have reads as undefined
StringOfProp(obj, f) == IF f \in DOMAIN obj THEN String(obj[f]) ELSE "undefined"

\* obj.f for a string-valued property
Prop(obj, f) == IF f \in DOMAIN obj THEN obj[f] ELSE Unset

\* Number(s) of JavaScript on a string: a numeric string gives its value, anything else NaN
Number(s) ==
  IF \E n \in 1..Len(Digits) : Digits[n] = s
  THEN CHOOSE n \in 1..Len(Digits) : Digits[n] = s
  ELSE NaN

\* a !== b on two numbers (NaN differs from everything, itself included)
NumStrictNeq(a, b) == a = NaN \/ b = NaN \/ a # b

\* JavaScript values that keep their runtime type, for === and !== across types
JsNumber(n) == [t |-> "number", v |-> String(n)]
JsString(s) == [t |-> "string", v |-> s]
StrictNeq(a, b) == a # b

PathIds == {String(n) : n \in 1..MaxId} \cup {"abc"}

(***************************************************************************)
(* Configuration (ConfigService over the validated environment).           *)
(***************************************************************************)
ConfigKeys == {"JWT_SECRET", "JWT_EXPIRE", "REFRESH_TOKEN_SECRET",
               "REFRESH_TOKEN_EXPIRE", "REFRESH_TOKEN_EXPIRATION"}

\* the Joi schema: secrets required, the two expiries defaulted, unknown keys allowed
validationSchema(env) ==
  [k \in ConfigKeys |->
     IF k = "JWT_EXPIRE" THEN Coalesce(env[k], "1h")
     ELSE IF k = "REFRESH_TOKEN_EXPIRE" THEN Coalesce(env[k], "30d")
     ELSE env[k]]

\* environments the service starts with: both secrets set, and different
Environments ==
  {[k \in ConfigKeys |->
      IF k = "JWT_SECRET" THEN "access-secret"
      ELSE IF k = "REFRESH_TOKEN_SECRET" THEN "refresh-secret"
      ELSE IF k = "REFRESH_TOKEN_EXPIRE" THEN rte
      ELSE Unset] : rte \in {Unset}}

VARIABLES
  config,   \* the validated configuration
  store,    \* the user table: a set of records
  nextId,   \* the table's id sequence
  events,   \* messages emitted to the broker, in order
  issued,   \* the token a client holds to present as bearer token (at most one)
  expired,  \* that token, once its expiry time has passed
  req,      \* the request handled last
  resp,     \* its response
  calls     \* sign-up requests in flight, each at one of its await points

vars == <<config, store, nextId, events, issued, expired, req, resp, calls>>

(***************************************************************************)
(* Password hasher (utils/bycrypt.ts).                                     *)
(***************************************************************************)
saltOrRounds == 10

\* a hasher that stores the plaintext
hashPassword_Plain(password, salt) ==
  [fmt |-> "plain", cost |-> 0, salt |-> salt, text |-> password]

hashPassword(password, salt) ==
  [fmt |-> "bcrypt", cost |-> saltOrRounds, salt |-> salt, text |-> password]

\* a comparison that looks at the digest's format only
comparePasswords_FormatOnly(password, hash) ==
  hash.fmt = "bcrypt"

comparePasswords(password, hash) ==
  hash.fmt = "bcrypt" /\ hash.text = password

(***************************************************************************)
(* Token issuer (JwtService as configured in AuthModule).                  *)
(***************************************************************************)
\* no bearer token: the routes without a guard
NoToken == [none |-> TRUE]

sign(payload, secret, expiresIn) ==
  [payload |-> payload, secret |-> secret, expiresIn |-> expiresIn]

JwtModuleSecret(cfg) == Coalesce(cfg["JWT_SECRET"], "")
JwtModuleExpiresIn(cfg) == Coalesce(cfg["JWT_EXPIRE"], "1h")

\* this._jwtService.signAsync(payload)
signAccessToken(cfg, payload) ==
  sign(payload, JwtModuleSecret(cfg), JwtModuleExpiresIn(cfg))

RefreshSignSecret(cfg) == Coalesce(cfg["REFRESH_TOKEN_SECRET"], "")
RefreshSignExpiresIn(cfg) == Coalesce(cfg["REFRESH_TOKEN_EXPIRATION"], "7d")

\* this._jwtService.signAsync(payload, { expiresIn, secret })
signRefreshToken(cfg, payload) ==
  sign(payload, RefreshSignSecret(cfg), RefreshSignExpiresIn(cfg))

\* passport-jwt verification with ignoreExpiration: false; `late` holds the tokens
\* whose expiry time has passed
verify(token, secretOrKey, late) ==
  /\ token.secret = secretOrKey
  /\ token \notin late

(***************************************************************************)
(* Credential store (the TypeORM repository of User) and UsersService.     *)
(***************************************************************************)
\* repository.findOne({ where: { email } }): the rows with that email
findOne(st, email) == {u \in st : u.email = email}

\* repository.findOne({ where: { id } }) with the path parameter, a string:
\* the database compares it with the integer column
repoFindById(st, id) == {u \in st : u.id = Number(id)}

\* UsersService.create up to the save: the new row, defaults filled in by the store
create(nid, email, password, salt) ==
  [id |-> nid, email |-> email, password |-> hashPassword(password, salt),
   role |-> DefaultRole, isActive |-> DefaultIsActive]

\* a table with a unique constraint on email, which keeps out a second row
save_Unique(st, row) ==
  IF \E u \in st : u.email = row.email THEN st ELSE st \cup {row}

\* repository.save(user) of a new row: the table takes it, whatever rows it holds
\* (email uniqueness is a pre-check of the service, not a constraint of the table)
save(st, row) == st \cup {row}

\* const { password, ...userWithoutPassword } = user
withoutPassword(u) == [f \in DOMAIN u \ {"password"} |-> u[f]]

\* JSON.stringify of an event value
JSONstringify(obj) == [json |-> obj]

\* a publisher that sends every message twice
emit_Twice(ev, key, value) ==
  ev \o << [topic |-> "user-topic", key |-> key, value |-> JSONstringify(value)],
           [topic |-> "user-topic", key |-> key, value |-> JSONstringify(value)] >>

emit(ev, key, value) ==
  Append(ev, [topic |-> "user-topic", key |-> key, value |-> JSONstringify(value)])

(***************************************************************************)
(* Outcomes of a request: the response, the stages of the request pipeline *)
(* that ran, the tokens in the response and the state the request leaves.  *)
(* db is the store side of the state: [store, nextId, events].             *)
(***************************************************************************)
Outcome(status, body, db, toks) ==
  [status |-> status, body |-> body, trace |-> <<"handler">>, db |-> db, tokens |-> toks]

ErrorBody(name) == [kind |-> "error", error |-> name]

\* an exception thrown by a handler
Throw(status, name, db) == Outcome(status, ErrorBody(name), db, {})

\* a request stopped by the stage `stage`, before the handler
Stopped(stage, status, name, db) ==
  [status |-> status, body |-> ErrorBody(name), trace |-> <<stage>>, db |-> db, tokens |-> {}]

\* the stages in `prefix` ran before the outcome o
After(prefix, o) == [o EXCEPT !.trace = prefix \o @]

(***************************************************************************)
(* AuthService.                                                            *)
(***************************************************************************)
claims(user) == [sub |-> user.id, email |-> user.email, role |-> user.role]

TokenPair(a, r) == [kind |-> "tokens", access_token |-> a, refresh_token |-> r]

signIn(cfg, db, email, pass) ==
  LET users == findOne(db.store, email) IN
  IF users = {}
  THEN {Throw(401, "Unauthorized", db)}
  ELSE {IF ~comparePasswords(pass, user.password)
        THEN Throw(401, "Unauthorized", db)
        ELSE LET payload == claims(user)
                 a == signAccessToken(cfg, payload)
                 r == signRefreshToken(cfg, payload)
             IN  Outcome(200, TokenPair(a, r), db, {a, r})
        : user \in users}

\* a sign-up that skips the existence check
isTaken_Never(existingUser) == FALSE

\* if (existingUser)
isTaken(existingUser) == existingUser # {}

signUp(cfg, db, email, pass, salt) ==
  IF isTaken(findOne(db.store, email))
  THEN {Throw(409, "Conflict", db)}
  ELSE LET user == create(db.nextId, email, pass, salt)
           saved == save(db.store, user)
           payload == claims(user)
           eventValues == [id |-> user.id, role |-> user.role, isActive |-> user.isActive]
           emitted == emit(db.events, String(user.id), eventValues)
           a == signAccessToken(cfg, payload)
           r == signRefreshToken(cfg, payload)
       IN  {Outcome(200, TokenPair(a, r),
                    [store |-> saved, nextId |-> db.nextId + 1, events |-> emitted], {a, r})}

\* a refresh that signs the way signIn signs its refresh token
generateAccessToken_RefreshSigned(cfg, db, email) ==
  LET users == findOne(db.store, email) IN
  IF users = {}
  THEN {Throw(401, "Unauthorized", db)}
  ELSE {LET a == signRefreshToken(cfg, claims(user))
        IN  Outcome(200, [kind |-> "access", access_token |-> a], db, {a})
        : user \in users}

generateAccessToken(cfg, db, email) ==
  LET users == findOne(db.store, email) IN
  IF users = {}
  THEN {Throw(401, "Unauthorized", db)}
  ELSE {LET a == signAccessToken(cfg, claims(user))
        IN  Outcome(200, [kind |-> "access", access_token |-> a], db, {a})
        : user \in users}

\* request.user when no strategy has attached an identity
NoUser == [userId |-> 0]

Rejected == [ok |-> FALSE, user |-> NoUser]
Accepted(user) == [ok |-> TRUE, user |-> user]

validateUserRole(st, payload) ==
  LET users == findOne(st, payload.email) IN
  IF users = {}
  THEN {Rejected}
  ELSE {IF user.role # payload.role
        THEN Rejected
        ELSE Accepted([userId |-> payload.sub, email |-> payload.email, role |-> payload.role])
        : user \in users}

(***************************************************************************)
(* Access control: the two passport strategies and RolesGuard.             *)
(***************************************************************************)
JwtStrategySecretOrKey(cfg) == Coalesce(cfg["JWT_SECRET"], "")
\* a refresh strategy that verifies with the primary secret
RefreshStrategySecretOrKey_Primary(cfg) == Coalesce(cfg["JWT_SECRET"], "")

RefreshStrategySecretOrKey(cfg) == Coalesce(cfg["REFRESH_TOKEN_SECRET"], "")

JwtStrategy(cfg, st, late, token) ==
  IF ~verify(token, JwtStrategySecretOrKey(cfg), late)
  THEN {Rejected}
  ELSE validateUserRole(st, token.payload)

RefreshStrategy(cfg, late, token) ==
  IF ~verify(token, RefreshStrategySecretOrKey(cfg), late)
  THEN {Rejected}
  ELSE {Accepted([userId |-> token.payload.sub, username |-> Prop(token.payload, "username")])}

\* the result of reflector.getAllAndOverride on a route without @Roles
NoRolesMetadata == {Unset}

\* a role guard that lets every role through
RolesGuard_AllowAll(requiredRoles, user) == TRUE

\* RolesGuard.canActivate: TRUE lets the request through, FALSE is the ForbiddenException
RolesGuard(requiredRoles, user) ==
  IF requiredRoles = NoRolesMetadata
  THEN TRUE
  ELSE \E role \in requiredRoles : user.role = role

\* what the guards of a route decide: the request passes to the handler with the
\* identity `user`, or is refused with `status`; `stages` are the guards that ran
Decision(pass, user, status, error, stages) ==
  [pass |-> pass, user |-> user, status |-> status, error |-> error, stages |-> stages]

\* @UseGuards(RolesGuard) @UseGuards(JwtAuthGuard): JwtAuthGuard runs first, then
\* RolesGuard
JwtGuard(cfg, st, late, token, requiredRoles) ==
  {IF ~g.ok
   THEN Decision(FALSE, NoUser, 401, "Unauthorized", <<"jwt">>)
   ELSE IF ~RolesGuard(requiredRoles, g.user)
   THEN Decision(FALSE, NoUser, 403, "Forbidden", <<"jwt", "roles">>)
   ELSE Decision(TRUE, g.user, 200, "", <<"jwt", "roles">>)
   : g \in JwtStrategy(cfg, st, late, token)}

\* @UseGuards(RefreshAuthGuard)
RefreshGuard(cfg, late, token) ==
  {IF ~g.ok
   THEN Decision(FALSE, NoUser, 401, "Unauthorized", <<"refresh">>)
   ELSE Decision(TRUE, g.user, 200, "", <<"refresh">>)
   : g \in RefreshStrategy(cfg, late, token)}

\* the handler runs only when the guards let the request pass
Guarded(d, db, handled) ==
  IF d.pass
  THEN {After(d.stages, o) : o \in handled}
  ELSE {[status |-> d.status, body |-> ErrorBody(d.error), trace |-> d.stages,
         db |-> db, tokens |-> {}]}

(***************************************************************************)
(* UsersService.                                                           *)
(***************************************************************************)
findById(db, id) ==
  IF Number(id) = NaN
  THEN {Throw(500, "QueryFailedError", db)}   \* the store rejects a non-integer id
  ELSE LET rows == repoFindById(db.store, id) IN
       IF rows = {}
       THEN {Outcome(200, [kind |-> "empty"], db, {})}
       ELSE {Outcome(200, [kind |-> "user", user |-> withoutPassword(u)], db, {}) : u \in rows}

\* an ownership check that lets everyone through
notOwner_Never(id, user) == FALSE

\* Number(id) !== Number(user.userId)
notOwner(id, user) == NumStrictNeq(Number(id), user.userId)

\* an update that skips the check of the new email
emailInUse_Never(existing, id) == FALSE

\* existingUser && existingUser.id !== id, id being the path parameter as received
emailInUse(existing, id) ==
  \E existingUser \in existing : StrictNeq(JsNumber(existingUser.id), JsString(id))

update(db, id, email, password, salt, user) ==
  IF notOwner(id, user)
  THEN {Throw(403, "Forbidden", db)}
  ELSE LET rows == repoFindById(db.store, id) IN
       IF rows = {}
       THEN {Throw(404, "NotFound", db)}
       ELSE IF emailInUse(findOne(db.store, email), id)
       THEN {Throw(403, "Forbidden", db)}
       ELSE {LET saved == [fetchedUser EXCEPT !.email = email,
                                              !.password = hashPassword(password, salt)]
             IN  Outcome(200, [kind |-> "user", user |-> saved],
                         [db EXCEPT !.store = (@ \ {fetchedUser}) \cup {saved}], {})
             : fetchedUser \in rows}

\* a remove that leaves the row in place
remove_Nothing(st, fetchedUser) == st

\* repository.remove(fetchedUser)
remove(st, fetchedUser) == st \ {fetchedUser}

delete(db, id, user) ==
  IF notOwner(id, user)
  THEN {Throw(403, "Forbidden", db)}
  ELSE LET rows == repoFindById(db.store, id) IN
       IF rows = {}
       THEN {Throw(404, "NotFound", db)}
       ELSE {LET removed == remove(db.store, fetchedUser)
                 eventValues == [id |-> Number(id), role |-> fetchedUser.role, isActive |-> FALSE]
                 emitted == emit(db.events, StringOfProp(user, "id"), eventValues)
             IN  Outcome(200, [kind |-> "message", message |-> "User deleted successfully"],
                         [db EXCEPT !.store = removed, !.events = emitted], {})
             : fetchedUser \in rows}

(***************************************************************************)
(* Controllers: the routes, with their pipes and guards.                   *)
(***************************************************************************)
IsEmail(email) == email # BadEmail
PasswordLength(password) == Len(password) >= 8 /\ Len(password) <= 50

\* new ValidationPipe() over SignInDto / SignUpDto
ValidationPipe(db, email, password, Handler) ==
  IF IsEmail(email) /\ PasswordLength(password)
  THEN {After(<<"pipe">>, o) : o \in Handler}
  ELSE {Stopped("pipe", 400, "BadRequest", db)}

AnyRole == {"USER", "ADMIN"}   \* @Roles(Role.USER, Role.ADMIN)
UserOnly == {"USER"}           \* @Roles(Role.USER)

PostLogin(cfg, db, email, password) ==
  ValidationPipe(db, email, password, signIn(cfg, db, email, password))

PostSignup(cfg, db, email, password, salt) ==
  ValidationPipe(db, email, password, signUp(cfg, db, email, password, salt))

PostRefresh(cfg, db, late, token, email) ==
  UNION {Guarded(d, db, generateAccessToken(cfg, db, email))
         : d \in RefreshGuard(cfg, late, token)}

GetProfile(cfg, db, late, token) ==
  UNION {Guarded(d, db, {Outcome(200, [kind |-> "identity", user |-> d.user], db, {})})
         : d \in JwtGuard(cfg, db.store, late, token, AnyRole)}

GetUser(cfg, db, late, token, id) ==
  UNION {Guarded(d, db, findById(db, id))
         : d \in JwtGuard(cfg, db.store, late, token, AnyRole)}

PutUser(cfg, db, late, token, id, email, password, salt) ==
  UNION {Guarded(d, db, update(db, id, email, password, salt, d.user))
         : d \in JwtGuard(cfg, db.store, late, token, UserOnly)}

DeleteUser(cfg, db, late, token, id) ==
  UNION {Guarded(d, db, delete(db, id, d.user))
         : d \in JwtGuard(cfg, db.store, late, token, UserOnly)}

(***************************************************************************)
(* The state machine.                                                      *)
(***************************************************************************)
Idle == [op |-> "idle", email |-> Unset, password |-> Unset, token |-> NoToken, id |-> Unset]
NoResponse == [status |-> 0, body |-> [kind |-> "none"], trace |-> <<>>]
Request(op, email, password, token, id) ==
  [op |-> op, email |-> email, password |-> password, token |-> token, id |-> id]

Db == [store |-> store, nextId |-> nextId, events |-> events]

\* the clients whose sign-up requests may be in flight together
Callers == {"c1", "c2"}

\* a client with no sign-up in flight
NoCall == [pc |-> "idle", email |-> Unset, password |-> Unset, salt |-> Unset,
           existingUser |-> {}, user |-> {}, resp |-> NoResponse]

Init ==
  /\ config \in {validationSchema(env) : env \in Environments}
  /\ store = {}
  /\ nextId = 1
  /\ events = <<>>
  /\ issued = {}
  /\ expired = {}
  /\ req = Idle
  /\ resp = NoResponse
  /\ calls = [c \in Callers |-> NoCall]

\* the request r is answered with one of `outcomes`; the client keeps the token it
\* holds or replaces it by one of the response
Handle(r, outcomes) ==
  \E o \in outcomes :
    /\ o.db.nextId <= MaxId + 1
    /\ req' = r
    /\ resp' = [status |-> o.status, body |-> o.body, trace |-> o.trace]
    /\ store' = o.db.store
    /\ nextId' = o.db.nextId
    /\ events' = o.db.events
    /\ issued' \in {issued} \cup {{token} : token \in o.tokens}
    /\ expired' = (expired \cap issued') \ o.tokens   \* a token just signed has its full lifetime
    /\ UNCHANGED <<config, calls>>

Login ==
  \E email \in AllEmails, password \in AllPasswords :
    Handle(Request("POST /auth/login", email, password, NoToken, Unset),
           PostLogin(config, Db, email, password))

Signup ==
  \E email \in AllEmails, password \in AllPasswords, salt \in Salts :
    Handle(Request("POST /auth/signup", email, password, NoToken, Unset),
           PostSignup(config, Db, email, password, salt))

Refresh ==
  \E token \in issued, email \in AllEmails :
    Handle(Request("POST /auth/refresh", email, Unset, token, Unset),
           PostRefresh(config, Db, expired, token, email))

Profile ==
  \E token \in issued :
    Handle(Request("GET /auth/profile", Unset, Unset, token, Unset),
           GetProfile(config, Db, expired, token))

ReadUser ==
  \E token \in issued, id \in PathIds :
    Handle(Request("GET /users/:id", Unset, Unset, token, id),
           GetUser(config, Db, expired, token, id))

UpdateUser ==
  \E token \in issued, id \in PathIds, email \in ValidEmails, password \in ValidPasswords,
     salt \in Salts :
    Handle(Request("PUT /users/:id", email, password, token, id),
           PutUser(config, Db, expired, token, id, email, password, salt))

RemoveUser ==
  \E token \in issued, id \in PathIds :
    Handle(Request("DELETE /users/:id", Unset, Unset, token, id),
           DeleteUser(config, Db, expired, token, id))

\* the store's operator changes a user's role (no route of the service does)
SetRole ==
  \E u \in store, role \in Roles :
    /\ role # u.role
    /\ store' = (store \ {u}) \cup {[u EXCEPT !.role = role]}
    /\ req' = Idle
    /\ resp' = NoResponse
    /\ UNCHANGED <<config, nextId, events, issued, expired, calls>>

\* time passes: a token a client holds reaches its expiry time
Expire ==
  \E token \in issued \ expired :
    /\ expired' = expired \cup {token}
    /\ req' = Idle
    /\ resp' = NoResponse
    /\ UNCHANGED <<config, store, nextId, events, issued, calls>>

Next ==
  \/ Login
  \/ Signup
  \/ Refresh
  \/ Profile
  \/ ReadUser
  \/ UpdateUser
  \/ RemoveUser
  \/ SetRole
  \/ Expire

Spec == Init /\ [][Next]_vars

(***************************************************************************)
(* Sign-up requests of several clients, interleaved at the await points of *)
(* AuthService.signUp: after findOne, after create (the save), and the     *)
(* rest of the method (emit, the two signAsync, the return).               *)
(***************************************************************************)
\* POST /auth/signup arrives: the pipe validates the body, then signUp is called and
\* suspends at its await of findOne
SignupCall(c) ==
  \E email \in AllEmails, password \in AllPasswords, salt \in Salts :
    /\ calls[c].pc \in {"idle", "done"}
    /\ calls' = [calls EXCEPT ![c] =
         IF IsEmail(email) /\ PasswordLength(password)
         THEN [NoCall EXCEPT !.pc = "findOne", !.email = email, !.password = password,
                             !.salt = salt]
         ELSE [NoCall EXCEPT !.pc = "done", !.email = email, !.password = password,
                             !.resp = [status |-> 400, body |-> ErrorBody("BadRequest"),
                                       trace |-> <<"pipe">>]]]
    /\ UNCHANGED <<config, store, nextId, events, issued, expired, req, resp>>

\* const existingUser = await findOne(email); if (existingUser) throw Conflict
SignupFindOne(c) ==
  /\ calls[c].pc = "findOne"
  /\ LET existingUser == findOne(store, calls[c].email) IN
     calls' = [calls EXCEPT ![c] =
       IF isTaken(existingUser)
       THEN [@ EXCEPT !.pc = "done", !.existingUser = existingUser,
                      !.resp = [status |-> 409, body |-> ErrorBody("Conflict"),
                                trace |-> <<"pipe", "handler">>]]
       ELSE [@ EXCEPT !.pc = "create", !.existingUser = existingUser]]
  /\ UNCHANGED <<config, store, nextId, events, issued, expired, req, resp>>

\* const user = await create(email, pass): the row is saved
SignupCreate(c) ==
  /\ calls[c].pc = "create"
  /\ nextId <= MaxId
  /\ LET user == create(nextId, calls[c].email, calls[c].password, calls[c].salt) IN
     /\ store' = save(store, user)
     /\ nextId' = nextId + 1
     /\ calls' = [calls EXCEPT ![c] = [@ EXCEPT !.pc = "emit", !.user = {user}]]
  /\ UNCHANGED <<config, events, issued, expired, req, resp>>

\* the rest of signUp: the event is emitted, the two tokens signed and returned
SignupReturn(c) ==
  /\ calls[c].pc = "emit"
  /\ \E user \in calls[c].user :
       LET payload == claims(user)
           eventValues == [id |-> user.id, role |-> user.role, isActive |-> user.isActive]
           a == signAccessToken(config, payload)
           r == signRefreshToken(config, payload)
       IN  /\ events' = emit(events, String(user.id), eventValues)
           /\ calls' = [calls EXCEPT ![c] =
                [@ EXCEPT !.pc = "done",
                          !.resp = [status |-> 200, body |-> TokenPair(a, r),
                                    trace |-> <<"pipe", "handler">>]]]
  /\ UNCHANGED <<config, store, nextId, issued, expired, req, resp>>

NextRace ==
  \E c \in Callers :
    \/ SignupCall(c)
    \/ SignupFindOne(c)
    \/ SignupCreate(c)
    \/ SignupReturn(c)

SpecRace == Init /\ [][NextRace]_vars

(***************************************************************************)
(* The token-issuing routes under every setting of the expiry keys: each   *)
(* key the schema or the service names is left out or set.                 *)
(***************************************************************************)
ExpiryEnvironments ==
  {[k \in ConfigKeys |->
      IF k = "JWT_SECRET" THEN "access-secret"
      ELSE IF k = "REFRESH_TOKEN_SECRET" THEN "refresh-secret"
      ELSE IF k = "JWT_EXPIRE" THEN je
      ELSE IF k = "REFRESH_TOKEN_EXPIRE" THEN rte
      ELSE rtn]
   : je \in {Unset, "15m"}, rte \in {Unset, "14d"}, rtn \in {Unset, "90d"}}

InitConfig ==
  /\ config \in {validationSchema(env) : env \in ExpiryEnvironments}
  /\ store = {}
  /\ nextId = 1
  /\ events = <<>>
  /\ issued = {}
  /\ expired = {}
  /\ req = Idle
  /\ resp = NoResponse
  /\ calls = [c \in Callers |-> NoCall]

NextConfig ==
  \/ Login
  \/ Signup

SpecConfig == InitConfig /\ [][NextConfig]_vars

(***************************************************************************)
(* Vocabulary of the properties.                                           *)
(***************************************************************************)
LOGIN == "POST /auth/login"
SIGNUP == "POST /auth/signup"
REFRESH == "POST /auth/refresh"
PROFILE == "GET /auth/profile"
GET_USER == "GET /users/:id"
PUT_USER == "PUT /users/:id"
DELETE_USER == "DELETE /users/:id"
JwtRoutes == {PROFILE, GET_USER, PUT_USER, DELETE_USER}

\* the route handler (and so the service method behind it) was invoked
HandlerRan(r) == r.trace # <<>> /\ r.trace[Len(r.trace)] = "handler"

\* the response carries no token
NoTokens(r) == r.body.kind \notin {"tokens", "access"}

\* h is a bcrypt digest made from the plaintext p
DigestOf(h, p) == h.fmt = "bcrypt" /\ h.text = p

IsAccessToken(token) == token.secret = config["JWT_SECRET"]
IsRefreshToken(token) == token.secret = config["REFRESH_TOKEN_SECRET"]

\* the whitelist of each route behind the access-token guard
Whitelist(op) == IF op \in {PUT_USER, DELETE_USER} THEN {"USER"} ELSE {"USER", "ADMIN"}

\* signature and expiry of an access token
Verified(token, late) == token.secret = config["JWT_SECRET"] /\ token \notin late

\* a record has the token's email, with the token's role
RoleValid(st, token) ==
  \E u \in st : u.email = token.payload.email /\ u.role = token.payload.role

(***************************************************************************)
(* C1.  signUp with an email that a stored record already has fails with   *)
(* Conflict (409); the store, the id sequence and the emitted events are   *)
(* unchanged and the response carries no tokens (none reaches a client).   *)
(***************************************************************************)
C1_SignUpConflict ==
  [][(req'.op = SIGNUP /\ HandlerRan(resp') /\ (\E u \in store : u.email = req'.email))
       => /\ resp'.status = 409
          /\ NoTokens(resp')
          /\ store' = store
          /\ nextId' = nextId
          /\ events' = events
          /\ issued' = issued]_vars

C1_Witness ==
  /\ req.op = SIGNUP
  /\ resp.status = 409
  /\ \E u \in store : u.email = req.email

(***************************************************************************)
(* C2.  signIn fails with Unauthorized (401) when no record has the email  *)
(* and when a record has it but its stored hash is not a digest of the     *)
(* given password; both failures have the same status, carry no tokens     *)
(* and leave the store and the events unchanged.                           *)
(***************************************************************************)
C2_SignInUnauthorized ==
  [][(/\ req'.op = LOGIN
      /\ HandlerRan(resp')
      /\ \A u \in store : u.email = req'.email => ~DigestOf(u.password, req'.password))
       => /\ resp'.status = 401
          /\ resp'.body = ErrorBody("Unauthorized")
          /\ store' = store
          /\ nextId' = nextId
          /\ events' = events
          /\ issued' = issued]_vars

\* the wrong-password case: the email is registered, the request was refused
C2_Witness ==
  /\ req.op = LOGIN
  /\ resp.status = 401
  /\ \E u \in store : u.email = req.email /\ ~DigestOf(u.password, req.password)

(***************************************************************************)
(* C3.  signUp with valid credentials whose email no record has succeeds;  *)
(* signIn with the same credentials right after it succeeds too and        *)
(* returns an access token and a refresh token that differ, the access     *)
(* token accepted by the access-token strategy and the refresh token by    *)
(* the refresh-token strategy.                                             *)
(***************************************************************************)
C3_SignUpThenSignIn ==
  [][/\ (req'.op = SIGNUP /\ HandlerRan(resp') /\ ~\E u \in store : u.email = req'.email)
          => resp'.status = 200 /\ resp'.body.kind = "tokens"
     /\ (/\ req.op = SIGNUP /\ resp.status = 200
         /\ req'.op = LOGIN /\ req'.email = req.email /\ req'.password = req.password)
          => /\ resp'.status = 200
             /\ resp'.body.kind = "tokens"
             /\ resp'.body.access_token # resp'.body.refresh_token
             /\ \A g \in JwtStrategy(config, store', expired', resp'.body.access_token) : g.ok
             /\ \A g \in RefreshStrategy(config, expired', resp'.body.refresh_token) : g.ok]_vars

C3_Witness ==
  /\ req.op = LOGIN
  /\ resp.status = 200
  /\ resp.body.kind = "tokens"
  /\ \E u \in store : u.email = req.email /\ u.id = resp.body.access_token.payload.sub

(***************************************************************************)
(* C4.  A token signed with the primary secret JWT_SECRET is answered 401  *)
(* on the refresh-token route, and a token signed with                     *)
(* REFRESH_TOKEN_SECRET is answered 401 on every access-token route; in    *)
(* neither case does a later stage or the handler run.                     *)
(***************************************************************************)
C4_CrossRejected ==
  /\ (req.op = REFRESH /\ IsAccessToken(req.token))
       => resp.status = 401 /\ resp.trace = <<"refresh">>
  /\ (req.op \in JwtRoutes /\ IsRefreshToken(req.token))
       => resp.status = 401 /\ resp.trace = <<"jwt">>

\* an unexpired access token was presented on the refresh route
C4_Witness ==
  /\ req.op = REFRESH
  /\ IsAccessToken(req.token)
  /\ req.token \notin expired
  /\ resp.status = 401

(***************************************************************************)
(* C5.  Once the persisted role of the user a token was issued to (the     *)
(* record whose id is the token's sub) differs from the role in the token, *)
(* validateUserRole rejects that token.                                    *)
(***************************************************************************)
C5_RoleChangeRejected ==
  \A token \in issued :
    (IsAccessToken(token)
       /\ \E u \in store : u.id = token.payload.sub /\ u.role # token.payload.role)
      => \A g \in validateUserRole(store, token.payload) : ~g.ok

(***************************************************************************)
(* C6.  Once the record whose id is the token's sub is gone,               *)
(* validateUserRole rejects the token; and whenever validateUserRole       *)
(* accepts a token, the userId it returns is the id of a stored record.    *)
(***************************************************************************)
C6_DeletedUserRejected ==
  \A token \in issued :
    IsAccessToken(token) =>
      \A g \in validateUserRole(store, token.payload) :
        /\ (~\E u \in store : u.id = token.payload.sub) => ~g.ok
        /\ g.ok => \E u \in store : u.id = g.user.userId

(***************************************************************************)
(* C7.  GET /users/:id for the id of a stored record, with a valid access   *)
(* token of role USER whose userId is not that id, is answered 403 without *)
(* a user record; with role ADMIN it is answered 200 with the record.      *)
(***************************************************************************)
C7_ReadOthersForbidden ==
  (req.op = GET_USER /\ resp.status # 401
     /\ NumStrictNeq(Number(req.id), req.token.payload.sub)
     /\ \E u \in store : u.id = Number(req.id))
    => /\ req.token.payload.role = "USER"
          => resp.status = 403 /\ resp.body.kind # "user"
       /\ req.token.payload.role = "ADMIN"
          => resp.status = 200 /\ resp.body.kind = "user" /\ resp.body.user.id = Number(req.id)

(***************************************************************************)
(* C8.  update and delete called with a token-derived userId that is not   *)
(* the path id fail with Forbidden (403), whether or not a record with the *)
(* path id exists, and leave the store and the events unchanged; and a     *)
(* request that changes or removes a record is a PUT or DELETE whose       *)
(* token-derived userId is the id of that record.                          *)
(***************************************************************************)
C8_OwnershipGuard ==
  [][/\ (req'.op \in {PUT_USER, DELETE_USER} /\ HandlerRan(resp')
           /\ NumStrictNeq(Number(req'.id), req'.token.payload.sub))
          => /\ resp'.status = 403
             /\ store' = store
             /\ events' = events
     /\ req'.op # Idle.op
          => \A u \in store : u \notin store'
                => /\ req'.op \in {PUT_USER, DELETE_USER}
                   /\ u.id = req'.token.payload.sub]_vars

\* a user asked to change or delete another id and was refused by the handler
C8_Witness ==
  /\ req.op \in {PUT_USER, DELETE_USER}
  /\ HandlerRan(resp)
  /\ resp.status = 403
  /\ NumStrictNeq(Number(req.id), req.token.payload.sub)
  /\ \E u \in store : u.id = Number(req.id)

(***************************************************************************)
(* C9.  A successful delete of user id appends exactly one event to        *)
(* user-topic, with value {id, role of the deleted record, isActive:       *)
(* false}; in the state where the event is out the record is gone:         *)
(* findById(id) and findOne(its email) find no user.  A failed delete      *)
(* emits nothing.                                                          *)
(***************************************************************************)
C9_DeleteEmitsOnce ==
  [][req'.op = DELETE_USER
       => IF resp'.status = 200
          THEN \E u \in store :
                 /\ u.id = Number(req'.id)
                 /\ Len(events') = Len(events) + 1
                 /\ SubSeq(events', 1, Len(events)) = events
                 /\ events'[Len(events')].topic = "user-topic"
                 /\ events'[Len(events')].value
                      = JSONstringify([id |-> u.id, role |-> u.role, isActive |-> FALSE])
                 /\ \A o \in findById([store |-> store', nextId |-> nextId', events |-> events'],
                                      req'.id) : o.body.kind = "empty"
                 /\ findOne(store', u.email) = {}
          ELSE events' = events /\ store' = store]_vars

C9_Witness ==
  /\ req.op = DELETE_USER
  /\ resp.status = 200
  /\ events # <<>>
  /\ events[Len(events)].value.json.isActive = FALSE

(***************************************************************************)
(* C10.  No response carries the password field of a user record.          *)
(***************************************************************************)
C10_NoPasswordInResponse ==
  /\ resp.body.kind = "user" => "password" \notin DOMAIN resp.body.user
  /\ resp.body.kind = "identity" => "password" \notin DOMAIN resp.body.user
  /\ resp.body.kind \in {"tokens", "access"}
       => "password" \notin DOMAIN resp.body.access_token.payload

(***************************************************************************)
(* C11.  With requests handled one at a time, no two records of the store  *)
(* have the same email.                                                    *)
(***************************************************************************)
C11_EmailUnique ==
  \A u \in store, v \in store : u.email = v.email => u = v

\* an owner asked for the email of another record and was refused, both stored
C11_Witness ==
  /\ req.op = PUT_USER
  /\ HandlerRan(resp)
  /\ resp.status = 403
  /\ ~NumStrictNeq(Number(req.id), req.token.payload.sub)
  /\ \E u \in store, v \in store :
       u.id = Number(req.id) /\ v.id # u.id /\ v.email = req.email

(***************************************************************************)
(* C12.  Two sign-up requests for one email, interleaved at their await    *)
(* points: whenever both found no record with the email at their findOne,  *)
(* both are answered 200 with tokens and the store holds two records with  *)
(* that email, one for each answer; and there is an execution where this   *)
(* happens (the witness).                                                  *)
(***************************************************************************)
C12_RaceDuplicates ==
  \A c \in Callers, d \in Callers :
    (/\ c # d
     /\ calls[c].pc = "done" /\ calls[d].pc = "done"
     /\ calls[c].email = calls[d].email
     /\ calls[c].resp.status \notin {400, 409} /\ calls[d].resp.status \notin {400, 409})
      => /\ calls[c].resp.status = 200 /\ calls[c].resp.body.kind = "tokens"
         /\ calls[d].resp.status = 200 /\ calls[d].resp.body.kind = "tokens"
         /\ \E u \in store, v \in store :
              /\ u # v
              /\ u.email = calls[c].email /\ v.email = calls[c].email
              /\ u.id = calls[c].resp.body.access_token.payload.sub
              /\ v.id = calls[d].resp.body.access_token.payload.sub

\* both requests passed the existence check, both were answered with tokens, and
\* the store holds two records with the email
C12_Witness ==
  \E c \in Callers, d \in Callers :
    /\ c # d
    /\ calls[c].pc = "done" /\ calls[d].pc = "done"
    /\ calls[c].email = calls[d].email
    /\ calls[c].existingUser = {} /\ calls[d].existingUser = {}
    /\ calls[c].resp.body.kind = "tokens" /\ calls[d].resp.body.kind = "tokens"
    /\ Cardinality({u \in store : u.email = calls[c].email}) = 2

(***************************************************************************)
(* C13.  PUT /users/:id by the owner of a stored record: with an email     *)
(* that a different record has it fails with Conflict (409) and the store  *)
(* is unchanged; with an email no other record has (the owner's own        *)
(* included) it succeeds, the record gets the new email and the digest of  *)
(* the new password, and its id and role stay.                             *)
(***************************************************************************)
C13_UpdateEmail ==
  [][(/\ req'.op = PUT_USER
      /\ HandlerRan(resp')
      /\ ~NumStrictNeq(Number(req'.id), req'.token.payload.sub)
      /\ \E u \in store : u.id = Number(req'.id))
       => IF \E v \in store : v.email = req'.email /\ v.id # Number(req'.id)
          THEN resp'.status = 409 /\ store' = store
          ELSE /\ resp'.status = 200
               /\ \E u \in store, w \in store' :
                    /\ u.id = Number(req'.id)
                    /\ store' = (store \ {u}) \cup {w}
                    /\ w.id = u.id /\ w.role = u.role
                    /\ w.email = req'.email
                    /\ DigestOf(w.password, req'.password)]_vars

(***************************************************************************)
(* C14.  generateAccessToken fails with Unauthorized (401) when no record  *)
(* has the given email; otherwise it returns exactly one token, an access  *)
(* token (signed as access tokens are, not as refresh tokens), whose       *)
(* claims {sub, email, role} are the id, email and role of the record now  *)
(* stored under that email.  It changes neither the store nor the events.  *)
(***************************************************************************)
C14_RefreshMintsAccess ==
  [][(req'.op = REFRESH /\ HandlerRan(resp'))
       => /\ store' = store /\ nextId' = nextId /\ events' = events
          /\ IF findOne(store, req'.email) = {}
             THEN resp'.status = 401 /\ NoTokens(resp')
             ELSE /\ resp'.status = 200
                  /\ DOMAIN resp'.body = {"kind", "access_token"}
                  /\ resp'.body.access_token
                       \in {signAccessToken(config, [sub |-> u.id, email |-> u.email,
                                                     role |-> u.role])
                            : u \in findOne(store, req'.email)}
                  /\ IsAccessToken(resp'.body.access_token)
                  /\ ~IsRefreshToken(resp'.body.access_token)]_vars

\* a refresh answered with an access token that carries the role stored now, which
\* is not the role in the refresh token presented
C14_Witness ==
  /\ req.op = REFRESH
  /\ resp.status = 200
  /\ resp.body.kind = "access"
  /\ resp.body.access_token.payload.role # req.token.payload.role
  /\ \E u \in store : u.email = req.email /\ u.role = resp.body.access_token.payload.role

(***************************************************************************)
(* C15.  Every refresh token that signIn or signUp returns carries the     *)
(* expiry set under REFRESH_TOKEN_EXPIRE, "30d" when it is not set; every  *)
(* access token carries the expiry set under JWT_EXPIRE, "1h" when it is   *)
(* not set.                                                                *)
(***************************************************************************)
C15_TokenExpiry ==
  (req.op \in {LOGIN, SIGNUP} /\ resp.body.kind = "tokens")
    => /\ resp.body.refresh_token.expiresIn = Coalesce(config["REFRESH_TOKEN_EXPIRE"], "30d")
       /\ resp.body.access_token.expiresIn = Coalesce(config["JWT_EXPIRE"], "1h")

(***************************************************************************)
(* C16.  On every guarded route a request goes through token verification, *)
(* then the role check, then the handler.  A token that fails verification *)
(* (signature, expiry) or validateUserRole is answered 401 and a verified  *)
(* token whose role is not in the route's whitelist 403, both without the  *)
(* handler and without any change of the store; otherwise the handler      *)
(* runs.  A role guard without whitelist lets every role through.  A token *)
(* with role ADMIN never reaches the handler of PUT or DELETE /users/:id.  *)
(***************************************************************************)
C16_GuardOrder ==
  [][/\ req'.op \in JwtRoutes
          => /\ resp'.trace \in {<<"jwt">>, <<"jwt", "roles">>, <<"jwt", "roles", "handler">>}
             /\ IF ~(Verified(req'.token, expired) /\ RoleValid(store, req'.token))
                THEN /\ resp'.status = 401
                     /\ resp'.trace = <<"jwt">>
                     /\ store' = store /\ events' = events
                ELSE IF req'.token.payload.role \notin Whitelist(req'.op)
                THEN /\ resp'.status = 403
                     /\ resp'.trace = <<"jwt", "roles">>
                     /\ store' = store /\ events' = events
                ELSE resp'.trace = <<"jwt", "roles", "handler">>
             /\ (req'.op \in {PUT_USER, DELETE_USER} /\ req'.token.payload.role = "ADMIN")
                  => ~HandlerRan(resp')
     /\ req'.op = REFRESH
          => /\ resp'.trace \in {<<"refresh">>, <<"refresh", "handler">>}
             /\ HandlerRan(resp')
                  <=> (IsRefreshToken(req'.token) /\ req'.token \notin expired)
             /\ ~HandlerRan(resp') => resp'.status = 401 /\ store' = store
     /\ \A role \in Roles : RolesGuard(NoRolesMetadata, [role |-> role])]_vars

\* a verified ADMIN token on a USER-only route, stopped by the role guard
C16_Witness ==
  /\ req.op \in {PUT_USER, DELETE_USER}
  /\ req.token.payload.role = "ADMIN"
  /\ RoleValid(store, req.token)
  /\ resp.status = 403
  /\ resp.trace = <<"jwt", "roles">>

(***************************************************************************)
(* C17.  A successful signUp(email, password) adds exactly one record,     *)
(* with that email, a digest of the password (not the plaintext) and an id *)
(* no record has; it then emits exactly one event on user-topic with       *)
(* {id, role, isActive} of that record, the record saved before; and its   *)
(* access and refresh token both carry {sub, email, role} of that record.  *)
(***************************************************************************)
C17_SignUpEffects ==
  [][\A c \in Callers :
       \* the save
       /\ (calls[c].pc = "create" /\ calls'[c].pc # "create")
            => /\ events' = events
               /\ \E u \in store' :
                    /\ u \notin store
                    /\ store' = store \cup {u}
                    /\ \A v \in store : v.id # u.id
                    /\ u.email = calls[c].email
                    /\ DigestOf(u.password, calls[c].password)
                    /\ u.role = DefaultRole /\ u.isActive = DefaultIsActive
       \* the event and the answer, after the save
       /\ (calls[c].pc # "done" /\ calls'[c].pc = "done" /\ calls'[c].resp.status = 200)
            => /\ store' = store
               /\ \E u \in store :
                    /\ u.email = calls[c].email
                    /\ events' = Append(events,
                          [topic |-> "user-topic", key |-> events'[Len(events')].key,
                           value |-> JSONstringify([id |-> u.id, role |-> u.role,
                                                    isActive |-> u.isActive])])
                    /\ calls'[c].resp.body.kind = "tokens"
                    /\ calls'[c].resp.body.access_token.payload
                         = [sub |-> u.id, email |-> u.email, role |-> u.role]
                    /\ calls'[c].resp.body.refresh_token.payload
                         = [sub |-> u.id, email |-> u.email, role |-> u.role]
       \* nothing else of a sign-up writes
       /\ (calls'[c] # calls[c] /\ calls[c].pc # "create" /\ calls'[c].resp.status # 200)
            => store' = store /\ events' = events
       \* one record and one event for each sign-up that got that far
       /\ Cardinality(store') = Len(events') + Cardinality({d \in Callers : calls'[d].pc = "emit"})]_vars

\* a sign-up was answered with tokens for the record it saved, its event is out
C17_Witness ==
  \E c \in Callers :
    /\ calls[c].pc = "done"
    /\ calls[c].resp.status = 200
    /\ \E u \in store :
         /\ u.id = calls[c].resp.body.access_token.payload.sub
         /\ u.email = calls[c].email
         /\ \E i \in 1..Len(events) : events[i].value.json.id = u.id

(***************************************************************************)
(* C18.  The access token that POST /auth/refresh returns has the subject  *)
(* of the refresh token presented with the request: the holder of one      *)
(* user's refresh token never gets an access token of another user.        *)
(***************************************************************************)
C18_RefreshSameSubject ==
  (req.op = REFRESH /\ resp.status = 200 /\ resp.body.kind = "access")
    => resp.body.access_token.payload.sub = req.token.payload.sub

(***************************************************************************)
(* C19.  Every event on user-topic, of signUp and of delete, has as key    *)
(* the string form of the user id in its value.                            *)
(***************************************************************************)
C19_EventKey ==
  \A i \in 1..Len(events) :
    events[i].topic = "user-topic" => events[i].key = String(events[i].value.json.id)

====
